---- MODULE Spec2Model ----
(***************************************************************************)
(* Model of src/twilio_components.py: the Xircuits component library that  *)
(* wraps the Twilio REST client and the TwiML builders.                    *)
(*                                                                         *)
(* Python values are tagged records (None, str, int, bool, list), so that  *)
(* truthiness and str() are computed as Python computes them.  A TwiML     *)
(* node is [name, attrs, value, verbs]; a response is [kind, verbs]; the   *)
(* serialized document is a sequence of markup tokens in text order.       *)
(* Every execute() is a sequence of steps, one per statement that changes  *)
(* the document or a port, sequenced by pc.                                *)
(***************************************************************************)
EXTENDS Integers, Sequences, FiniteSets, TLC

VARIABLES pc, comp, inp, response, dial, idx, twiml, raised, memo,
          env, client, gtcCalls, remoteCalls, remote, outp

vars == <<pc, comp, inp, response, dial, idx, twiml, raised, memo,
          env, client, gtcCalls, remoteCalls, remote, outp>>

(* ------------------------------ bounds --------------------------------- *)

\* longest list of numbers given to TwilioMakeTwiMLDial
MaxNumbers == 2

(* --------------------------- Python values ----------------------------- *)

None == [t |-> "none"]
S(s) == [t |-> "str", s |-> s]
I(i) == [t |-> "int", i |-> i]
B(b) == [t |-> "bool", b |-> b]
L(q) == [t |-> "list", l |-> q]
\* a port object of the component (InArg / InCompArg) holding a value
Port(v) == [t |-> "port", value |-> v]
\* a twilio.rest.Client built from two credentials
Client(sid, token) == [t |-> "client", sid |-> sid, token |-> token]

\* Python truth value testing, as used by every `if x:` / `x and y` / `not x`
IsNotNone(v) == v.t # "none"
Truthy(v) ==
    CASE v.t = "none" -> FALSE
      [] v.t = "str"  -> v.s # ""
      [] v.t = "int"  -> v.i # 0
      [] v.t = "bool" -> v.b
      [] v.t = "list" -> Len(v.l) > 0
      [] OTHER        -> TRUE   \* any other object, a port object included

\* twilio TwiML.xml(): bool -> str(value).lower(), anything else -> str(value)
AttrText(v) ==
    CASE v.t = "str"  -> v.s
      [] v.t = "int"  -> ToString(v.i)
      [] v.t = "bool" -> IF v.b THEN "true" ELSE "false"
      [] OTHER        -> "None"

(* ------------------- the TwiML library the nodes call ------------------ *)

\* keyword-argument dictionaries are functions from key to value
EmptyKwargs == [k \in {} |-> None]

\* twilio lower_camel(): snake_case keys become lowerCamel, others are kept
LowerCamel(k) ==
    CASE k = "num_digits" -> "numDigits"
      [] k = "caller_id"  -> "callerId"
      [] OTHER            -> k

\* TwiML.__init__(**kwargs): keeps the arguments that are not None
Attrs(kwargs) ==
    LET kept == {k \in DOMAIN kwargs : kwargs[k].t # "none"}
    IN  [a \in {LowerCamel(k) : k \in kept} |->
            kwargs[CHOOSE k \in kept : LowerCamel(k) = a]]

Node(name, value, kwargs) ==
    [name |-> name, attrs |-> Attrs(kwargs), value |-> value, verbs |-> <<>>]

\* TwiML.nest(verb) / TwiML.append(verb): the verb becomes the last child
Nest(parent, verb) == [parent EXCEPT !.verbs = Append(@, verb)]

\* `x = parent.f(...)` followed by `x.g(...)`: x is the last child of parent
NestInLast(parent, verb) ==
    [parent EXCEPT !.verbs[Len(parent.verbs)] = Nest(@, verb)]

\* VoiceResponse() / MessagingResponse(): a new document with no verbs
VoiceResponse == [kind |-> "voice", verbs |-> <<>>]
MessagingResponse == [kind |-> "messaging", verbs |-> <<>>]

\* sorted(self.attrs.keys()): the attribute names in codepoint order
SortedKeys == <<"action", "callerId", "language", "loop", "maxLength",
                "numDigits", "timeout", "transcribe", "transcribeCallback",
                "voice">>

AttrTokens(n) ==
    LET ks == SelectSeq(SortedKeys, LAMBDA k : k \in DOMAIN n.attrs)
    IN  [j \in 1..Len(ks) |-> <<"attr", n.name, ks[j], AttrText(n.attrs[ks[j]])>>]

\* `if self.value: el.text = self.value`
TextTokens(n) == IF Truthy(n.value) THEN << <<"text", n.value.s>> >> ELSE <<>>

RECURSIVE Xml(_), XmlAll(_)
XmlAllReversed(vs) ==
    IF vs = <<>> THEN <<>> ELSE XmlAll(Tail(vs)) \o Xml(Head(vs))
\* `for verb in self.verbs: el.append(verb.xml())`
XmlAll(vs) ==
    IF vs = <<>> THEN <<>> ELSE Xml(Head(vs)) \o XmlAll(Tail(vs))
\* TwiML.xml(): the element, its attributes, its text, its children
Xml(n) ==
    << <<"open", n.name>> >> \o AttrTokens(n) \o TextTokens(n)
        \o XmlAll(n.verbs) \o << <<"close", n.name>> >>

\* str(response): the XML declaration, then the Response root element
Str(resp) ==
    [t |-> "xml",
     toks |-> << <<"decl">>, <<"open", "Response">> >> \o XmlAll(resp.verbs)
                 \o << <<"close", "Response">> >>]

(* ------------------------------ inputs --------------------------------- *)

OptStr(x) == {None, S(""), S(x)}
OptInt(n) == {None, I(0), I(n)}
OptBool   == {None, B(FALSE), B(TRUE)}
ReqStr(x) == {None, S(x)}
ReqInt(n) == {None, I(n)}

Phones == {"+15551234567", "+15557654321"}
RECURSIVE SeqsUpTo(_)
SeqsUpTo(n) ==
    IF n = 0 THEN {<<>>}
    ELSE LET r == SeqsUpTo(n - 1)
         IN  r \cup {Append(q, p) : q \in {x \in r : Len(x) = n - 1}, p \in Phones}
NumberLists == {None} \cup {L(q) : q \in SeqsUpTo(MaxNumbers)}

Builders == {"Say", "Play", "Dial", "Gather", "Message", "SayAndRecord"}

\* the in-ports of each TwiML component, with the values a flow can give them
Inputs(c) ==
    CASE c = "Say" ->
           [message : {S("Hello")}, voice : OptStr("alice"),
            language : OptStr("en-US"), loop : OptInt(2)]
      [] c = "Play" ->
           [url : {S("https://x/a.mp3")}, loop : OptInt(2)]
      [] c = "Dial" ->
           [numbers : NumberLists, timeout : OptInt(5),
            caller_id : OptStr("+15550000000")]
      [] c = "Gather" ->
           [prompt : {S("Enter PIN")}, num_digits : ReqInt(4),
            timeout : OptInt(5), action_url : ReqStr("https://x/cb")]
      [] c = "Message" ->
           [message : {S("Hi")}, media_url : OptStr("https://x/m.png")]
      [] c = "SayAndRecord" ->
           [message : {S("Hello")}, max_length : ReqInt(30),
            timeout : OptInt(5), transcribe : OptBool,
            transcribe_callback : OptStr("https://x/tc"),
            action_url : ReqStr("https://x/cb")]

NoMemo == [comp |-> "none"]
NoResponse == [kind |-> "none", verbs |-> <<>>]
NoNode == [name |-> "none", attrs |-> EmptyKwargs, value |-> None, verbs |-> <<>>]

(* --------------------------- TwiML builders ---------------------------- *)

\* `if self.x.value: kwargs[key] = value`
Opt(v, key, value) == IF Truthy(v) THEN key :> value ELSE EmptyKwargs

SayKwargs(i) ==
    Opt(i.voice, "voice", i.voice) @@ Opt(i.language, "language", i.language)
        @@ Opt(i.loop, "loop", i.loop)
PlayKwargs(i) == Opt(i.loop, "loop", i.loop)
DialKwargs(i) ==
    Opt(i.timeout, "timeout", i.timeout)
        @@ Opt(i.caller_id, "caller_id", i.caller_id)
GatherKwargs(i) ==
    ("num_digits" :> i.num_digits) @@ ("action" :> i.action_url)
        @@ Opt(i.timeout, "timeout", i.timeout)
RecordKwargs(i) ==
    ("maxLength" :> i.max_length) @@ ("action" :> i.action_url)
        @@ Opt(i.timeout, "timeout", i.timeout)
        @@ Opt(i.transcribe, "transcribe", B(TRUE))
        @@ Opt(i.transcribe_callback, "transcribeCallback", i.transcribe_callback)

\* the response object each execute() creates first
AlwaysVoice(c) == VoiceResponse
ReusedResponse(c) ==
    [response EXCEPT !.kind = IF c = "Message" THEN "messaging" ELSE "voice"]
NewResponse(c) == IF c = "Message" THEN MessagingResponse ELSE VoiceResponse

\* `for number in self.numbers.value`: the entry the loop is at
FirstNumber(numbers, i) == numbers[1]
NextNumber(numbers, i) == numbers[i + 1]

\* `for number in self.numbers.value`: the loop has run over the whole list
LoopDoneEarly(i, numbers) == i + 1 >= Len(numbers)
LoopDone(i, numbers) == i = Len(numbers)

\* `if self.media_url.value:`
MediaWanted(url) == Truthy(url)

\* where TwilioMakeTwiMLSayAndRecord attaches the Record verb
RecordInsideSay(resp, rec) == NestInLast(resp, rec)
AttachRecord(resp, rec) == Nest(resp, rec)

Idle == pc \in {"idle", "done", "raised"}

\* the finished executions an observer may keep for a later comparison (memo):
\* those whose optional inputs are each omitted or given a non-empty value
IsEmptyValue(v) ==
    \/ v.t = "none"
    \/ v.t = "str" /\ v.s = ""
    \/ v.t = "int" /\ v.i = 0
    \/ v.t = "bool" /\ v.b = FALSE
Remembered(c, i) ==
    \A f \in DOMAIN i : i[f].t \in {"none", "list"} \/ ~IsEmptyValue(i[f])

\* a component is constructed with its in-ports assigned and execute() is
\* entered: response = VoiceResponse() / MessagingResponse()
BeginBuilder(c, i) ==
    /\ Idle
    /\ pc' = "build"
    /\ comp' = c
    /\ inp' = i
    /\ twiml' = None
    /\ raised' = "none"
    /\ response' = NewResponse(c)
    /\ dial' = NoNode
    /\ idx' = 0
    /\ \/ memo' = memo
       \/ /\ pc = "done" /\ comp \in Builders /\ Remembered(comp, inp)
          /\ memo' = [comp |-> comp, inp |-> inp, out |-> twiml]
    /\ UNCHANGED <<env, client, gtcCalls, remoteCalls, remote, outp>>

BuildFrame == UNCHANGED <<comp, inp, twiml, memo,
                          env, client, gtcCalls, remoteCalls, remote, outp>>

\* response.say(self.message.value, **say_kwargs)
SayBuild ==
    /\ pc = "build" /\ comp = "Say"
    /\ response' = Nest(response, Node("Say", inp.message, SayKwargs(inp)))
    /\ pc' = "serialize"
    /\ UNCHANGED <<dial, idx, raised>>
    /\ BuildFrame

\* response.play(self.url.value, **play_kwargs)
PlayBuild ==
    /\ pc = "build" /\ comp = "Play"
    /\ response' = Nest(response, Node("Play", inp.url, PlayKwargs(inp)))
    /\ pc' = "serialize"
    /\ UNCHANGED <<dial, idx, raised>>
    /\ BuildFrame

\* dial = Dial(**dial_kwargs); iter(self.numbers.value), a TypeError on None
DialCreate ==
    /\ pc = "build" /\ comp = "Dial"
    /\ dial' = Node("Dial", None, DialKwargs(inp))
    /\ idx' = 0
    /\ IF inp.numbers.t = "list"
         THEN pc' = "loop" /\ raised' = raised
         ELSE pc' = "raised" /\ raised' = "TypeError"
    /\ UNCHANGED response
    /\ BuildFrame

\* dial.number(number), once per entry of the list
DialNumber ==
    /\ pc = "loop" /\ comp = "Dial"
    /\ ~LoopDone(idx, inp.numbers.l)
    /\ dial' = Nest(dial, Node("Number", S(NextNumber(inp.numbers.l, idx)), EmptyKwargs))
    /\ idx' = idx + 1
    /\ UNCHANGED <<pc, response, raised>>
    /\ BuildFrame

\* response.append(dial)
DialAppend ==
    /\ pc = "loop" /\ comp = "Dial"
    /\ LoopDone(idx, inp.numbers.l)
    /\ response' = Nest(response, dial)
    /\ pc' = "serialize"
    /\ UNCHANGED <<dial, idx, raised>>
    /\ BuildFrame

\* gather = response.gather(**gather_kwargs)
GatherBuild ==
    /\ pc = "build" /\ comp = "Gather"
    /\ response' = Nest(response, Node("Gather", None, GatherKwargs(inp)))
    /\ pc' = "child"
    /\ UNCHANGED <<dial, idx, raised>>
    /\ BuildFrame

\* gather.say(self.prompt.value)
GatherSay ==
    /\ pc = "child" /\ comp = "Gather"
    /\ response' = NestInLast(response, Node("Say", inp.prompt, EmptyKwargs))
    /\ pc' = "serialize"
    /\ UNCHANGED <<dial, idx, raised>>
    /\ BuildFrame

\* msg = response.message(self.message.value)
MessageBuild ==
    /\ pc = "build" /\ comp = "Message"
    /\ response' = Nest(response, Node("Message", inp.message, EmptyKwargs))
    /\ pc' = IF MediaWanted(inp.media_url) THEN "child" ELSE "serialize"
    /\ UNCHANGED <<dial, idx, raised>>
    /\ BuildFrame

\* msg.media(self.media_url.value)
MessageMedia ==
    /\ pc = "child" /\ comp = "Message"
    /\ response' = NestInLast(response, Node("Media", inp.media_url, EmptyKwargs))
    /\ pc' = "serialize"
    /\ UNCHANGED <<dial, idx, raised>>
    /\ BuildFrame

\* response.say(self.message.value)
SayAndRecordSay ==
    /\ pc = "build" /\ comp = "SayAndRecord"
    /\ response' = Nest(response, Node("Say", inp.message, EmptyKwargs))
    /\ pc' = "record"
    /\ UNCHANGED <<dial, idx, raised>>
    /\ BuildFrame

\* response.record(**record_kwargs)
SayAndRecordRecord ==
    /\ pc = "record" /\ comp = "SayAndRecord"
    /\ response' = AttachRecord(response, Node("Record", None, RecordKwargs(inp)))
    /\ pc' = "serialize"
    /\ UNCHANGED <<dial, idx, raised>>
    /\ BuildFrame

\* self.twiml.value = str(response)
Serialize ==
    /\ pc = "serialize"
    /\ comp \in Builders
    /\ twiml' = Str(response)
    /\ pc' = "done"
    /\ UNCHANGED <<comp, inp, response, dial, idx, raised, memo,
                   env, client, gtcCalls, remoteCalls, remote, outp>>

(* ------------------- credentials and the REST client ------------------- *)

\* os.getenv('TWILIO_ACCOUNT_SID'), os.getenv('TWILIO_AUTH_TOKEN')
Envs == [sid : OptStr("ACenv"), token : OptStr("tok_env")]

Ok(c) == [ok |-> TRUE, client |-> c]
Raise(e) == [ok |-> FALSE, exc |-> e]

\* get_twilio_client with each credential resolved on its own
PerCredentialClient(account_sid, auth_token, e) ==
    LET sid == IF Truthy(account_sid) THEN account_sid ELSE e.sid
        tok == IF Truthy(auth_token) THEN auth_token ELSE e.token
    IN  IF ~Truthy(sid) \/ ~Truthy(tok)
          THEN Raise("EnvironmentError")
          ELSE Ok(Client(sid, tok))
\* get_twilio_client(account_sid, auth_token) under environment e
GetTwilioClient(account_sid, auth_token, e) ==
    IF Truthy(account_sid) /\ Truthy(auth_token)
      THEN Ok(Client(account_sid, auth_token))
      ELSE IF ~Truthy(e.sid) \/ ~Truthy(e.token)
             THEN Raise("EnvironmentError")
             ELSE Ok(Client(e.sid, e.token))

\* `self.p.value if self.p else d`
ValueOr(p, d) == IF Truthy(p) THEN p.value ELSE d

\* a port as execute() can find it: no object, an unconnected port object
\* (value None), or a port object carrying one of the given values
PortStates(values) == {None, Port(None)} \cup {Port(v) : v \in values}

AuthInputs ==
    [account_sid : PortStates({S(""), S("ACexp")}),
     auth_token : PortStates({S(""), S("tok_exp")})]

Dispatchers == {"SendSMS", "SendWhatsApp", "MakeCall", "GetMessageStatus",
                "GetCallStatus", "ListMessages"}

GivenClient == Client(S("ACgiven"), S("tok_given"))

DispatchInputs(c) ==
    IF c = "ListMessages"
      THEN [client : PortStates({GivenClient}), limit : PortStates({I(10)})]
      ELSE [client : PortStates({GivenClient})]

\* the limit TwilioListMessages asks for when it finds no limit port
DefaultLimit == 50

\* the one remote operation each request node performs
RemoteOp(c, i) ==
    CASE c \in {"SendSMS", "SendWhatsApp"} -> [op |-> "messages.create", limit |-> None]
      [] c = "MakeCall"         -> [op |-> "calls.create", limit |-> None]
      [] c = "GetMessageStatus" -> [op |-> "messages.fetch", limit |-> None]
      [] c = "GetCallStatus"    -> [op |-> "calls.fetch", limit |-> None]
      [] c = "ListMessages"     ->
           [op |-> "messages.list", limit |-> ValueOr(i.limit, I(DefaultLimit))]

\* what the remote operation returns when it succeeds
RemoteResults(c) ==
    CASE c \in {"SendSMS", "SendWhatsApp"} -> {S("SM1")}
      [] c = "MakeCall"         -> {S("CA1")}
      [] c = "GetMessageStatus" -> {S("queued"), S("delivered")}
      [] c = "GetCallStatus"    -> {S("ringing"), S("completed")}
      [] c = "ListMessages"     ->
           {L(<<>>),
            L(<<[sid |-> "SM1", from_ |-> "+1", to |-> "+2", body |-> "Hi",
                 status |-> "sent", date_sent |-> None, price |-> None]>>)}
      [] OTHER                  -> {}

\* the value written to the out-port from the remote result
OutValue(c, r) ==
    IF c = "ListMessages"
      THEN L([j \in 1..Len(r.l) |->
               [sid |-> r.l[j].sid, from |-> r.l[j].from_, to |-> r.l[j].to,
                body |-> r.l[j].body, status |-> r.l[j].status,
                date_sent |-> AttrText(r.l[j].date_sent),
                price |-> r.l[j].price]])
      ELSE r

BeginClientNode(c, i, e) ==
    /\ Idle
    /\ pc' = "start"
    /\ comp' = c
    /\ inp' = i
    /\ env' = e
    /\ client' = None
    /\ gtcCalls' = 0
    /\ remoteCalls' = 0
    /\ remote' = None
    /\ outp' = None
    /\ raised' = "none"
    /\ UNCHANGED <<response, dial, idx, twiml, memo>>

ClientFrame == UNCHANGED <<comp, inp, env, response, dial, idx, twiml, memo>>

\* TwilioAuth.execute: self.client.value = get_twilio_client(sid, token)
AuthExecute ==
    /\ pc = "start" /\ comp = "Auth"
    /\ LET r == GetTwilioClient(ValueOr(inp.account_sid, None),
                                ValueOr(inp.auth_token, None), env)
       IN  /\ gtcCalls' = gtcCalls + 1
           /\ IF r.ok
                THEN outp' = r.client /\ pc' = "done" /\ raised' = raised
                ELSE outp' = outp /\ pc' = "raised" /\ raised' = r.exc
    /\ UNCHANGED <<client, remoteCalls, remote>>
    /\ ClientFrame

\* client = self.client.value if self.client else get_twilio_client()
TakeClient ==
    /\ pc = "start" /\ comp \in Dispatchers
    /\ Truthy(inp.client)
    /\ client' = inp.client.value
    /\ pc' = "call"
    /\ UNCHANGED <<gtcCalls, remoteCalls, remote, outp, raised>>
    /\ ClientFrame

FetchClient ==
    /\ pc = "start" /\ comp \in Dispatchers
    /\ ~Truthy(inp.client)
    /\ LET r == GetTwilioClient(None, None, env)
       IN  /\ gtcCalls' = gtcCalls + 1
           /\ IF r.ok
                THEN client' = r.client /\ pc' = "call" /\ raised' = raised
                ELSE client' = client /\ pc' = "raised" /\ raised' = r.exc
    /\ UNCHANGED <<remoteCalls, remote, outp>>
    /\ ClientFrame

\* client.messages... on None: AttributeError before any request is made
CallOnNone ==
    /\ pc = "call" /\ comp \in Dispatchers
    /\ client.t = "none"
    /\ pc' = "raised"
    /\ raised' = "AttributeError"
    /\ UNCHANGED <<client, gtcCalls, remoteCalls, remote, outp>>
    /\ ClientFrame

\* the remote call returns a result
CallReturns(r) ==
    /\ pc = "call" /\ comp \in Dispatchers
    /\ client.t = "client"
    /\ remoteCalls' = remoteCalls + 1
    /\ remote' = RemoteOp(comp, inp) @@ [client |-> client, result |-> r]
    /\ pc' = "write"
    /\ UNCHANGED <<client, gtcCalls, outp, raised>>
    /\ ClientFrame

\* the remote call fails (TwilioRestException)
CallFails ==
    /\ pc = "call" /\ comp \in Dispatchers
    /\ client.t = "client"
    /\ remoteCalls' = remoteCalls + 1
    /\ remote' = RemoteOp(comp, inp) @@ [client |-> client, result |-> None]
    /\ pc' = "raised"
    /\ raised' = "TwilioRestException"
    /\ UNCHANGED <<client, gtcCalls, outp>>
    /\ ClientFrame

\* self.message_sid.value = message.sid (or call_sid, status, messages)
WriteOutput ==
    /\ pc = "write" /\ comp \in Dispatchers
    /\ outp' = OutValue(comp, remote.result)
    /\ pc' = "done"
    /\ UNCHANGED <<client, gtcCalls, remoteCalls, remote, raised>>
    /\ ClientFrame

(* --------------------------- specification ----------------------------- *)

Init ==
    /\ pc = "idle"
    /\ comp = "none"
    /\ inp = None
    /\ response = NoResponse
    /\ dial = NoNode
    /\ idx = 0
    /\ twiml = None
    /\ raised = "none"
    /\ memo = NoMemo
    /\ env = [sid |-> None, token |-> None]
    /\ client = None
    /\ gtcCalls = 0
    /\ remoteCalls = 0
    /\ remote = None
    /\ outp = None

Next ==
    \/ \E c \in Builders : \E i \in Inputs(c) : BeginBuilder(c, i)
    \/ SayBuild
    \/ PlayBuild
    \/ DialCreate
    \/ DialNumber
    \/ DialAppend
    \/ GatherBuild
    \/ GatherSay
    \/ MessageBuild
    \/ MessageMedia
    \/ SayAndRecordSay
    \/ SayAndRecordRecord
    \/ Serialize

Spec == Init /\ [][Next]_vars

ClientNext ==
    \/ \E i \in AuthInputs : \E e \in Envs : BeginClientNode("Auth", i, e)
    \/ \E c \in Dispatchers : \E i \in DispatchInputs(c) : \E e \in Envs :
          BeginClientNode(c, i, e)
    \/ AuthExecute
    \/ TakeClient
    \/ FetchClient
    \/ CallOnNone
    \/ \E r \in RemoteResults(comp) : CallReturns(r)
    \/ CallFails
    \/ WriteOutput

ClientSpec == Init /\ [][ClientNext]_vars

(* ----------------------- reading a token sequence ---------------------- *)

IsOpen(tk)  == tk[1] = "open"
IsClose(tk) == tk[1] = "close"

\* the number of elements open at token j
Depth(tw, j) ==
    Cardinality({k \in 1..(j - 1) : IsOpen(tw[k])})
        - Cardinality({k \in 1..(j - 1) : IsClose(tw[k])})

\* the position of the opening token of the element that encloses token j
ParentIdx(tw, j) ==
    LET cands == {k \in 1..(j - 1) : IsOpen(tw[k]) /\ Depth(tw, k) = Depth(tw, j) - 1}
    IN  IF cands = {} THEN 0 ELSE CHOOSE k \in cands : \A m \in cands : m <= k

\* the opening tokens of the children of the element opened at k, in text order
OpensUnder(tw, k) ==
    SelectSeq([j \in 1..Len(tw) |-> j],
              LAMBDA j : IsOpen(tw[j]) /\ ParentIdx(tw, j) = k)

NamesAt(tw, js) == [n \in 1..Len(js) |-> tw[js[n]][2]]

\* the position of the first token equal to tk (0 when there is none)
FirstPos(tw, tk) ==
    LET at == {j \in 1..Len(tw) : tw[j] = tk}
    IN  IF at = {} THEN 0 ELSE CHOOSE j \in at : \A m \in at : j <= m

\* the opening tokens of the top-level elements: the children of the root
TopLevel(tw) == OpensUnder(tw, FirstPos(tw, <<"open", "Response">>))
TopLevelNames(tw) == NamesAt(tw, TopLevel(tw))

\* the text of the element opened at j ("" when it has none)
TextOf(tw, j) ==
    LET after == {m \in (j + 1)..Len(tw) : tw[m][1] # "attr"}
        m0 == CHOOSE m \in after : \A n \in after : m <= n
    IN  IF tw[m0][1] = "text" THEN tw[m0][2] ELSE ""

HasAttr(tw, el, key) ==
    \E j \in 1..Len(tw) : tw[j][1] = "attr" /\ tw[j][2] = el /\ tw[j][3] = key
HasElem(tw, el) == \E j \in 1..Len(tw) : tw[j] = <<"open", el>>

NamesOf(nodes) == [n \in 1..Len(nodes) |-> nodes[n].name]

BuilderDone == pc = "done" /\ comp \in Builders

(* ------------------------------- C1 ------------------------------------ *)

C1_AttrIff(tw, el, key, v) == HasAttr(tw, el, key) <=> ~IsEmptyValue(v)

\* C1: in the document a builder produced, each optional attribute (or the
\* Media child) is present exactly when its input is present and not empty
\* (None, "", 0, False); no attribute has an empty value; and transcribe=False
\* gives the document that an omitted transcribe gives.
C1_OptionalIffNonEmpty ==
    BuilderDone =>
      LET tw == twiml.toks IN
      /\ comp = "Say" =>
           /\ C1_AttrIff(tw, "Say", "voice", inp.voice)
           /\ C1_AttrIff(tw, "Say", "language", inp.language)
           /\ C1_AttrIff(tw, "Say", "loop", inp.loop)
      /\ comp = "Play" => C1_AttrIff(tw, "Play", "loop", inp.loop)
      /\ comp = "Dial" =>
           /\ C1_AttrIff(tw, "Dial", "timeout", inp.timeout)
           /\ C1_AttrIff(tw, "Dial", "callerId", inp.caller_id)
      /\ comp = "Gather" => C1_AttrIff(tw, "Gather", "timeout", inp.timeout)
      /\ comp = "Message" => (HasElem(tw, "Media") <=> ~IsEmptyValue(inp.media_url))
      /\ comp = "SayAndRecord" =>
           /\ C1_AttrIff(tw, "Record", "timeout", inp.timeout)
           /\ C1_AttrIff(tw, "Record", "transcribe", inp.transcribe)
           /\ C1_AttrIff(tw, "Record", "transcribeCallback", inp.transcribe_callback)
           /\ ( /\ memo.comp = "SayAndRecord"
                /\ IsEmptyValue(inp.transcribe)
                /\ IsEmptyValue(memo.inp.transcribe)
                /\ [inp EXCEPT !.transcribe = None]
                     = [memo.inp EXCEPT !.transcribe = None]
              ) => twiml = memo.out
      /\ \A j \in 1..Len(tw) : tw[j][1] = "attr" => tw[j][4] # ""

\* transcribe=False is executed after the same inputs with transcribe omitted
\* were, with an empty callback-free Record that carries its timeout
C1_Witness ==
    /\ BuilderDone /\ comp = "SayAndRecord"
    /\ inp.transcribe = B(FALSE)
    /\ inp.timeout = I(5)
    /\ memo.comp = "SayAndRecord"
    /\ memo.inp = [inp EXCEPT !.transcribe = None]
    /\ HasAttr(twiml.toks, "Record", "timeout")
    /\ ~HasAttr(twiml.toks, "Record", "transcribe")

(* ------------------------------- C3 ------------------------------------ *)

\* C3: the document TwilioMakeTwiMLDial produces has exactly one top-level
\* Dial element whose children are one Number per entry of the list, in the
\* list's order; no other builder's document has a Number element.
C3_DialNumbers ==
    BuilderDone =>
      LET tw == twiml.toks
          tops == TopLevel(tw)
      IN  IF comp = "Dial"
            THEN /\ NamesAt(tw, tops) = <<"Dial">>
                 /\ LET kids == OpensUnder(tw, tops[1])
                    IN  /\ Len(kids) = Len(inp.numbers.l)
                        /\ \A n \in 1..Len(kids) :
                             /\ tw[kids[n]] = <<"open", "Number">>
                             /\ TextOf(tw, kids[n]) = inp.numbers.l[n]
                 /\ \A j \in 1..Len(tw) :
                      tw[j] = <<"open", "Number">> => ParentIdx(tw, j) = tops[1]
            ELSE ~HasElem(tw, "Number")

\* a Dial of two different numbers, given in the reverse of their sort order
C3_Witness ==
    /\ BuilderDone /\ comp = "Dial"
    /\ inp.numbers = L(<<"+15557654321", "+15551234567">>)
    /\ Len(OpensUnder(twiml.toks, TopLevel(twiml.toks)[1])) = 2

(* ------------------------------- C4 ------------------------------------ *)

VoiceVerbs == {"Say", "Play", "Dial", "Gather", "Record"}
MessagingVerbs == {"Message"}

\* C4: a voice-kind document holds only Say, Play, Dial, Gather or Record at
\* top level and a messaging-kind document only Message, in every state of
\* every builder, and no produced text mixes the two.
C4_KindIsolation ==
    /\ response.kind = "voice" =>
         \A n \in 1..Len(response.verbs) : response.verbs[n].name \in VoiceVerbs
    /\ response.kind = "messaging" =>
         \A n \in 1..Len(response.verbs) : response.verbs[n].name \in MessagingVerbs
    /\ BuilderDone =>
         LET names == TopLevelNames(twiml.toks)
             used == {names[n] : n \in 1..Len(names)}
         IN  /\ response.kind \in {"voice", "messaging"}
             /\ used # {}
             /\ IF comp = "Message" THEN used \subseteq MessagingVerbs
                                    ELSE used \subseteq VoiceVerbs

\* a messaging document is produced after a voice document was
C4_Witness ==
    /\ BuilderDone /\ comp = "Message"
    /\ memo.comp = "SayAndRecord"
    /\ response.kind = "messaging"
    /\ TopLevelNames(twiml.toks) = <<"Message">>

(* ------------------------------- C2 ------------------------------------ *)

RequiredAbsent ==
    \/ comp = "Gather" /\ (inp.num_digits.t = "none" \/ inp.action_url.t = "none")
    \/ comp = "SayAndRecord"
         /\ (inp.max_length.t = "none" \/ inp.action_url.t = "none")

\* C2: executing Gather or SayAndRecord with a required attribute absent
\* fails with MissingRequiredAttribute and never writes twiml.
C2_RequiredAbsentFails ==
    RequiredAbsent =>
      /\ twiml.t = "none"
      /\ pc # "done"
      /\ pc = "raised" => raised = "MissingRequiredAttribute"

(* ------------------------------- C5 ------------------------------------ *)

\* the top-level composite node has every child its inputs give it
Complete(n) ==
    /\ n.name = "Dial" => Len(n.verbs) = Len(inp.numbers.l)
    /\ n.name = "Gather" => NamesOf(n.verbs) = <<"Say">>

\* C5 as stated: in no state does the document hold a Dial or Gather node
\* whose children are incomplete.
C5_NeverIncompleteInDocument ==
    \A n \in 1..Len(response.verbs) : Complete(response.verbs[n])

\* C5 as amended: a Dial is attached only when it has all its Numbers; a
\* Gather is attached before its Say prompt, and is incomplete only in the
\* one state between the two statements, in which twiml is not written; the
\* written twiml never holds an incomplete Dial or Gather.
C5_CompleteWhenSerialized ==
    /\ \A n \in 1..Len(response.verbs) :
         LET v == response.verbs[n] IN
         /\ v.name = "Dial" => Complete(v)
         /\ (v.name = "Gather" /\ ~Complete(v)) =>
               (pc = "child" /\ twiml.t = "none" /\ v.verbs = <<>>)
    /\ BuilderDone =>
         LET tw == twiml.toks
             tops == TopLevel(tw)
         IN  \A n \in 1..Len(tops) :
               /\ tw[tops[n]][2] = "Dial" =>
                    Len(OpensUnder(tw, tops[n])) = Len(inp.numbers.l)
               /\ tw[tops[n]][2] = "Gather" =>
                    NamesAt(tw, OpensUnder(tw, tops[n])) = <<"Say">>

\* a Dial with two numbers and (earlier) a Gather were serialized
C5_Witness ==
    /\ BuilderDone /\ comp = "Dial"
    /\ Len(inp.numbers.l) = 2
    /\ Len(response.verbs[1].verbs) = 2
    /\ memo.comp = "Gather"

(* ------------------------------- C6 ------------------------------------ *)

RECURSIVE NodesIn(_)
\* every node of a list of nodes, at any depth
NodesIn(vs) ==
    IF vs = <<>> THEN {}
    ELSE {Head(vs)} \cup NodesIn(Head(vs).verbs) \cup NodesIn(Tail(vs))

AllNodes == NodesIn(response.verbs) \cup NodesIn(<<dial>>)

\* C6 as stated: only Dial and Gather nodes have children.
C6_OnlyDialGatherHaveChildren ==
    \A n \in AllNodes : n.verbs # <<>> => n.name \in {"Dial", "Gather"}

\* C6 as amended: only Dial, Gather and Message nodes have children; Say,
\* Play, Number, Record and Media are leaves; a Message has one Media child
\* exactly when its media_url is not empty, and no other child.
C6_CompositeVerbs ==
    /\ \A n \in AllNodes :
         /\ n.verbs # <<>> => n.name \in {"Dial", "Gather", "Message"}
         /\ n.name = "Message" => NamesOf(n.verbs) \in {<<>>, <<"Media">>}
    /\ (BuilderDone /\ comp = "Message") =>
         /\ Len(response.verbs) = 1
         /\ (response.verbs[1].verbs # <<>>) <=> ~IsEmptyValue(inp.media_url)
         /\ NamesAt(twiml.toks, OpensUnder(twiml.toks, TopLevel(twiml.toks)[1]))
              = NamesOf(response.verbs[1].verbs)

\* a Message with a media_url was built, after a SayAndRecord was
C6_Witness ==
    /\ BuilderDone /\ comp = "Message"
    /\ inp.media_url = S("https://x/m.png")
    /\ NamesOf(response.verbs[1].verbs) = <<"Media">>
    /\ memo.comp = "SayAndRecord"

(* ------------------------------- C7 ------------------------------------ *)

C8_InsertionOrder ==
    BuilderDone =>
      LET tw == twiml.toks
          tops == TopLevel(tw)
      IN  /\ NamesAt(tw, tops) = NamesOf(response.verbs)
          /\ \A n \in 1..Len(tops) :
               /\ NamesAt(tw, OpensUnder(tw, tops[n])) = NamesOf(response.verbs[n].verbs)
               /\ \A m \in 1..Len(response.verbs[n].verbs) :
                    TextOf(tw, OpensUnder(tw, tops[n])[m])
                      = response.verbs[n].verbs[m].value.s
          /\ comp = "SayAndRecord" =>
               /\ NamesAt(tw, tops) = <<"Say", "Record">>
               /\ TextOf(tw, tops[1]) = inp.message.s
               /\ FirstPos(tw, <<"text", inp.message.s>>)
                    < FirstPos(tw, <<"open", "Record">>)

\* SayAndRecord with every optional input given
C8_Witness ==
    /\ BuilderDone /\ comp = "SayAndRecord"
    /\ inp.timeout = I(5) /\ inp.transcribe = B(TRUE)
    /\ inp.transcribe_callback = S("https://x/tc")
    /\ TopLevelNames(twiml.toks) = <<"Say", "Record">>

(* ------------------------------- C9 ------------------------------------ *)

AuthFinished == comp = "Auth" /\ pc \in {"done", "raised"}
ExplicitSid == IF inp.account_sid.t = "port" THEN inp.account_sid.value ELSE None
ExplicitToken == IF inp.auth_token.t = "port" THEN inp.auth_token.value ELSE None

\* C9 as stated: each explicit credential takes precedence over the
\* environment's value of the same credential, also when only one is given,
\* and the call fails exactly when a credential is available from neither.
C9_PerCredentialPrecedence ==
    AuthFinished =>
      /\ pc = "done" =>
           /\ ~IsEmptyValue(ExplicitSid) => outp.sid = ExplicitSid
           /\ ~IsEmptyValue(ExplicitToken) => outp.token = ExplicitToken
      /\ pc = "raised" <=>
           \/ IsEmptyValue(ExplicitSid) /\ IsEmptyValue(env.sid)
           \/ IsEmptyValue(ExplicitToken) /\ IsEmptyValue(env.token)

ExplicitPair == ~IsEmptyValue(ExplicitSid) /\ ~IsEmptyValue(ExplicitToken)

\* C9 as amended: the explicit pair is used when both explicit credentials
\* are given and not empty; otherwise both credentials come from the
\* environment and an explicit credential given alone is ignored; the call
\* fails, returning no client, exactly when the explicit pair is incomplete
\* and an environment variable is missing or empty.
C9_PairPrecedence ==
    AuthFinished =>
      /\ gtcCalls = 1
      /\ pc = "done" =>
           outp = IF ExplicitPair THEN Client(ExplicitSid, ExplicitToken)
                                  ELSE Client(env.sid, env.token)
      /\ pc = "raised" <=>
           (~ExplicitPair /\ (IsEmptyValue(env.sid) \/ IsEmptyValue(env.token)))
      /\ pc = "raised" => (outp.t = "none" /\ raised = "EnvironmentError")

\* only account_sid is given explicitly and the environment's pair is used
C9_Witness ==
    /\ AuthFinished /\ pc = "done"
    /\ ExplicitSid = S("ACexp") /\ IsEmptyValue(ExplicitToken)
    /\ outp = Client(S("ACenv"), S("tok_env"))

(* ------------------------------- C10 ----------------------------------- *)

ClientSupplied == inp.client.t = "port" /\ inp.client.value.t = "client"

\* C10: a request node uses the supplied client without calling
\* get_twilio_client; with no client supplied it obtains one through
\* get_twilio_client() before its single remote call; the out-port is
\* written only after that call returned.
C10_OptionalClientPort ==
    (comp \in Dispatchers /\ pc \in {"call", "write", "done", "raised"}) =>
      /\ ClientSupplied => (client = inp.client.value /\ gtcCalls = 0)
      /\ ~ClientSupplied => gtcCalls = 1
      /\ (~ClientSupplied /\ pc # "raised") => client.t = "client"
      /\ remoteCalls <= 1
      /\ outp.t # "none" => (pc = "done" /\ remoteCalls = 1 /\ remote.result.t # "none")

====
